---- MODULE Spec2Model ----
(***************************************************************************)
(* A model of one RDLCompiler session (systemrdl/compiler.py): the message *)
(* handler's error counter and diagnostic sink, the root component's       *)
(* definition table, the namespace's default-property stack, and the two   *)
(* public operations compile_file and elaborate.                           *)
(*                                                                         *)
(* Components are objects on a heap and are referred to by their address,  *)
(* as in Python, so that copying and aliasing are different things.        *)
(* Python exceptions are modelled by the field "raised" of the running     *)
(* call's state record: once it is set, the rest of the call is skipped.   *)
(***************************************************************************)
EXTENDS Integers, Sequences, FiniteSets, TLC

VARIABLES
    error_count,                \* self.msg.error_count
    sink,                       \* what the message printer was handed during the latest call
    comp_defs,                  \* self.root.comp_defs: <<[name, ref]>> in insertion order
    heap,                       \* the component objects; an object's address is its index
    default_property_ns_stack,  \* self.namespace.default_property_ns_stack
    log,                        \* the walker's events during the latest elaborate call
    result,                     \* how the latest call ended, and with what arguments
    ncalls,                     \* calls made on the session so far
    elaborated                  \* the definitions an elaborate call has returned a Node for

vars == <<error_count, sink, comp_defs, heap, default_property_ns_stack,
          log, result, ncalls, elaborated>>

----------------------------------------------------------------------------
(* Bounds of the model.                                                    *)

\* The calls made on one session.
MaxCalls == 3

----------------------------------------------------------------------------
(* Values.                                                                 *)

None == [some |-> FALSE]
Some(v) == [some |-> TRUE, v |-> v]

Names == {"a", "b"}
InstNames == {"top"}
Props == {"p"}

\* Parameter maps: functions from parameter names to values.
EmptyMap == << >>
ParamMaps == {EmptyMap, [n \in {"P"} |-> 1]}

\* What a listener finds wrong with an instance, if anything.
Faults == {"none", "expr_error", "expr_fatal", "pre_error", "place_error", "val_error"}

\* A child instance as a definition's body declares it.
Child(present, fault) == [present |-> present, fault |-> fault]

\* The bodies of the addrmap definitions the units hold: one child, sound or
\* with something for one of the passes to find, present or not; or two
\* children, with errors for two passes to find.
Sound == <<Child(TRUE, "none")>>
Bodies == {<<Child(TRUE, f)>> : f \in {"none", "expr_fatal", "place_error", "val_error"}}
              \cup {<<Child(FALSE, "val_error")>>}
              \cup {<<Child(TRUE, "expr_error"), Child(TRUE, f)>> :
                        f \in {"pre_error", "expr_fatal"}}

\* The statements a unit's parse tree holds at its top level. The definition
\* of "a" is an addrmap with any of the bodies, or a reg; that of "b" is a
\* sound addrmap, or a reg.
Def(name, kind, children) ==
    [item |-> "def", name |-> name, kind |-> kind, children |-> children]
DefItems == {Def("a", "addrmap", cs) : cs \in Bodies}
            \cup {Def("b", "addrmap", Sound)}
            \cup {Def(n, "reg", << >>) : n \in Names}
DefaultItems == {[item |-> "default", prop |-> p] : p \in Props}
TroubleItems == {[item |-> "error"], [item |-> "fatal"]}

Opt(S) == {<< >>} \cup {<<x>> : x \in S}

\* The parse trees: a default assignment or a component definition (or
\* nothing), then at most one statement the visitor rejects.
Trees == {s \o t : s \in Opt(DefaultItems \cup DefItems), t \in Opt(TroubleItems)}

\* An input unit: whether the front end reports a syntax error, and the parse
\* tree. The front end recovers from a syntax error and still hands over a tree.
Units == {[syntax_error |-> FALSE, items |-> t] : t \in Trees}
         \cup {[syntax_error |-> TRUE, items |-> <<d>>] :
                   d \in {Def(n, "addrmap", Sound) : n \in Names} \cup DefaultItems}

----------------------------------------------------------------------------
(* The message handler (systemrdl/messages.py).                            *)

\* msg.error: the diagnostic is printed and counted; the caller goes on.
MsgError(st, tag) ==
    [st EXCEPT !.error_count = @ + 1, !.sink = Append(@, <<"error", tag>>)]

\* msg.fatal: the diagnostic is printed and RDLCompileError unwinds the call.
MsgFatal(st, tag) ==
    [st EXCEPT !.sink = Append(@, <<"fatal", tag>>),
               !.raised = "RDLCompileError", !.text = tag]

----------------------------------------------------------------------------
(* The component objects.                                                  *)

NewComp(kind, type_name, present, fault, children) ==
    [kind |-> kind, type_name |-> type_name, is_instance |-> FALSE,
     inst_name |-> None, present |-> present, fault |-> fault,
     children |-> children, resolved |-> FALSE, placed |-> FALSE]

\* The lowest free address.
NextFree(h) ==
    CHOOSE i \in 1..(Cardinality(DOMAIN h) + 1) :
        i \notin DOMAIN h /\ \A j \in 1..(i - 1) : j \in DOMAIN h

Alloc(h, obj) == (NextFree(h) :> obj) @@ h

Bound(defs) == {defs[i].name : i \in DOMAIN defs}
Lookup(defs, name) == defs[CHOOSE i \in DOMAIN defs : defs[i].name = name].ref

\* The objects a component owns: itself and its children.
Owned(h, ref) == {ref} \cup {h[ref].children[i] : i \in DOMAIN h[ref].children}
DefObjects(h, defs) == UNION {Owned(h, defs[i].ref) : i \in DOMAIN defs}

\* Objects nothing refers to any more are reclaimed.
Collect(h, defs, node) ==
    LET live == DefObjects(h, defs) \cup (IF node = 0 THEN {} ELSE Owned(h, node))
    IN [id \in live |-> h[id]]

----------------------------------------------------------------------------
(* RootVisitor.visit: the parse tree's statements, in order.               *)

RECURSIVE AllocChildren(_, _, _)
AllocChildren(h, decls, refs) ==
    IF decls = << >> THEN [heap |-> h, refs |-> refs]
    ELSE LET c == Head(decls) IN
         AllocChildren(Alloc(h, NewComp("reg", "", c.present, c.fault, << >>)),
                       Tail(decls), Append(refs, NextFree(h)))

\* A component definition: its object and its children's are allocated and the
\* name is bound in the root scope; a name already bound is a NameConflict.
VisitDef(st, it) ==
    IF it.name \in Bound(st.comp_defs)
    THEN MsgError(st, "NameConflict")
    ELSE LET kids == AllocChildren(st.heap, it.children, << >>)
             top == NewComp(it.kind, it.name, TRUE, "none", kids.refs)
         IN [st EXCEPT !.heap = Alloc(kids.heap, top),
                       !.comp_defs = Append(@, [name |-> it.name,
                                                ref |-> NextFree(kids.heap)])]

\* A default property assignment: it goes into the innermost frame; assigning
\* the same default twice in one scope is an error.
VisitDefault(st, it) ==
    LET d == Len(st.stack) IN
    IF it.prop \in st.stack[d]
    THEN MsgError(st, "DefaultRedefined")
    ELSE [st EXCEPT !.stack[d] = @ \cup {it.prop}]

VisitItem(st, it) ==
    CASE it.item = "def" -> VisitDef(st, it)
      [] it.item = "default" -> VisitDefault(st, it)
      [] it.item = "error" -> MsgError(st, "Semantic")
      [] it.item = "fatal" -> MsgFatal(st, "Semantic")

RECURSIVE Visit(_, _)
Visit(st, items) ==
    IF items = << >> \/ st.raised # "" THEN st
    ELSE Visit(VisitItem(st, Head(items)), Tail(items))

----------------------------------------------------------------------------
(* compile_file.                                                           *)

\* The state a call starts in.
Enter ==
    [error_count |-> error_count, sink |-> << >>, comp_defs |-> comp_defs,
     heap |-> heap, stack |-> default_property_ns_stack,
     log |-> << >>, raised |-> "", text |-> "", visited |-> FALSE,
     visitor_errors |-> 0,
     top_def |-> 0, top_def_name |-> None, top_inst |-> 0, node |-> 0]

\* A variant that starts each unit with the error counter at zero.
ParseCountingAfresh(st, unit) ==
    LET fresh == [st EXCEPT !.error_count = 0]
    IN IF unit.syntax_error THEN MsgError(fresh, "Syntax") ELSE fresh

\* Lines 58-71: the Antlr error listeners report each syntax error to msg.
Parse(st, unit) ==
    IF unit.syntax_error THEN MsgError(st, "Syntax") ELSE st

\* A variant without the test.
ParseUnchecked(st) == st

\* Lines 72-73.
CheckParse(st) ==
    IF st.error_count # 0 THEN MsgFatal(st, "ParseAborted") ELSE st

\* Line 76.
RunVisitor(st, unit) ==
    IF st.raised # "" THEN st
    ELSE LET s == Visit([st EXCEPT !.visited = TRUE], unit.items) IN
         [s EXCEPT !.visitor_errors = s.error_count - st.error_count]

\* Line 80.
ResetDefaults(st) ==
    IF st.raised # "" THEN st ELSE [st EXCEPT !.stack = <<{}>>]

\* Lines 82-83.
CheckCompile(st) ==
    IF st.raised # "" THEN st
    ELSE IF st.error_count # 0 THEN MsgFatal(st, "CompileAborted") ELSE st

compile_file(st, unit) ==
    CheckCompile(ResetDefaults(RunVisitor(CheckParse(Parse(st, unit)), unit)))

\* The call's effects become the session's state; what the caller no longer
\* holds is reclaimed.
Commit(st) ==
    /\ error_count' = st.error_count
    /\ sink' = st.sink
    /\ comp_defs' = st.comp_defs
    /\ heap' = Collect(st.heap, st.comp_defs, st.node)
    /\ default_property_ns_stack' = st.stack
    /\ log' = st.log

CompileFile(unit) ==
    /\ ncalls < MaxCalls
    /\ \E st \in {compile_file(Enter, unit)} :
       /\ Commit(st)
       /\ result' = [op |-> "compile_file", raised |-> st.raised, text |-> st.text,
                     syntax_error |-> unit.syntax_error,
                     visited |-> st.visited, visitor_errors |-> st.visitor_errors,
                     stack_at_entry |-> default_property_ns_stack,
                     errors_at_entry |-> error_count]
    /\ ncalls' = ncalls + 1
    /\ UNCHANGED elaborated

----------------------------------------------------------------------------
(* copy.deepcopy, on a component and the children it owns.                 *)

RECURSIVE CopyChildren(_, _, _)
CopyChildren(h, refs, copies) ==
    IF refs = << >> THEN [heap |-> h, refs |-> copies]
    ELSE CopyChildren(Alloc(h, h[Head(refs)]), Tail(refs),
                      Append(copies, NextFree(h)))

\* A variant that hands back the object itself.
SameObject(h, ref) == [heap |-> h, ref |-> ref]

deepcopy(h, ref) ==
    LET kids == CopyChildren(h, h[ref].children, << >>)
        top == [h[ref] EXCEPT !.children = kids.refs]
    IN [heap |-> Alloc(kids.heap, top), ref |-> NextFree(kids.heap)]

----------------------------------------------------------------------------
(* The walker and the four listeners (systemrdl/walker.py,                 *)
(* systemrdl/core/elaborate.py, systemrdl/core/validate.py).               *)

RECURSIVE Flatten(_)
Flatten(ss) == IF ss = << >> THEN << >> ELSE Head(ss) \o Flatten(Tail(ss))

\* RDLWalker.walk: the callbacks in the order they are made. At a node every
\* listener's enter callback runs, in the listeners' order, before the walk
\* descends; every listener's exit callback runs after the children. With
\* skip_not_present an instance that is not present is left out, with all
\* below it.
RECURSIVE Callbacks(_, _, _, _)
Callbacks(h, ref, listeners, skip_not_present) ==
    IF skip_not_present /\ ~h[ref].present THEN << >>
    ELSE [i \in DOMAIN listeners |-> [cb |-> "enter", by |-> listeners[i], at |-> ref]]
         \o Flatten([i \in DOMAIN h[ref].children |->
                        Callbacks(h, h[ref].children[i], listeners, skip_not_present)])
         \o [i \in DOMAIN listeners |-> [cb |-> "exit", by |-> listeners[i], at |-> ref]]

\* ElabExpressionsListener: an expression that cannot be resolved is fatal or
\* an error, by its kind; any other is replaced by its value.
ElabExpressionsEnter(st, ref) ==
    LET fault == st.heap[ref].fault IN
    CASE fault = "expr_fatal" -> MsgFatal(st, "UnresolvableExpression")
      [] fault = "expr_error" -> MsgError(st, "Expression")
      [] OTHER -> [st EXCEPT !.heap[ref].resolved = TRUE]

\* PrePlacementValidateListener: reports what placement cannot cope with.
PrePlacementValidateEnter(st, ref) ==
    IF st.heap[ref].fault = "pre_error" THEN MsgError(st, "PrePlacement") ELSE st

\* StructuralPlacementListener: assigns addresses, top-down.
StructuralPlacementEnter(st, ref) ==
    IF st.heap[ref].fault = "place_error" THEN MsgError(st, "Placement")
    ELSE [st EXCEPT !.heap[ref].placed = TRUE]

\* ValidateListener: reports violations; it changes nothing in the tree.
ValidateEnter(st, ref) ==
    IF st.heap[ref].fault = "val_error" THEN MsgError(st, "Validate") ELSE st

Event(st, cb, by, at) == [cb |-> cb, by |-> by, at |-> at, errors |-> st.error_count]

\* One callback: it is noted in the log, with the error counter it starts at.
Callback(st, c) ==
    LET s == [st EXCEPT !.log = Append(@, Event(st, c.cb, c.by, c.at))] IN
    CASE c.cb = "exit" -> s
      [] c.by = "ElabExpressions" -> ElabExpressionsEnter(s, c.at)
      [] c.by = "PrePlacementValidate" -> PrePlacementValidateEnter(s, c.at)
      [] c.by = "StructuralPlacement" -> StructuralPlacementEnter(s, c.at)
      [] c.by = "Validate" -> ValidateEnter(s, c.at)

RECURSIVE Run(_, _)
Run(st, cbs) ==
    IF cbs = << >> \/ st.raised # "" THEN st
    ELSE Run(Callback(st, Head(cbs)), Tail(cbs))

\* A walk that returns is noted in the log, with the error counter it ends at.
walk(st, listeners, skip_not_present) ==
    IF st.raised # "" THEN st
    ELSE LET s == Run(st, Callbacks(st.heap, st.node, listeners, skip_not_present)) IN
         IF s.raised # "" THEN s
         ELSE [s EXCEPT !.log = Append(@, Event(s, "done", listeners[1], st.node))]

----------------------------------------------------------------------------
(* elaborate.                                                              *)

\* Lines 117-118.
Parameters(parameters) == IF parameters = None THEN EmptyMap ELSE parameters.v

IsAddrmap(h, ref) == h[ref].kind = "addrmap"

\* A variant that takes the first addrmap defined.
FirstAddrmap(st) ==
    LET found == {i \in DOMAIN st.comp_defs : IsAddrmap(st.heap, st.comp_defs[i].ref)}
    IN IF found = {} THEN MsgFatal(st, "NoAddrmap")
       ELSE LET i == CHOOSE i \in found : \A j \in found : i <= j
                ref == st.comp_defs[i].ref
            IN [st EXCEPT !.top_def = ref,
                          !.top_def_name = Some(st.heap[ref].type_name)]

\* Lines 130-137: the last addrmap defined, if there is one.
LastAddrmap(st) ==
    LET found == {i \in DOMAIN st.comp_defs : IsAddrmap(st.heap, st.comp_defs[i].ref)}
    IN IF found = {} THEN MsgFatal(st, "NoAddrmap")
       ELSE LET i == CHOOSE i \in found : \A j \in found : j <= i
                ref == st.comp_defs[i].ref
            IN [st EXCEPT !.top_def = ref,
                          !.top_def_name = Some(st.heap[ref].type_name)]

\* A variant that takes the named definition whatever its category.
NamedTargetOfAnyKind(st, top_def_name) ==
    IF top_def_name.v \notin Bound(st.comp_defs)
    THEN MsgFatal(st, "TargetNotFound")
    ELSE [st EXCEPT !.top_def = Lookup(st.comp_defs, top_def_name.v),
                    !.top_def_name = top_def_name]

\* Lines 121-128: the definition bound to top_def_name, if it is an addrmap.
NamedTarget(st, top_def_name) ==
    IF top_def_name.v \notin Bound(st.comp_defs)
    THEN MsgFatal(st, "TargetNotFound")
    ELSE LET ref == Lookup(st.comp_defs, top_def_name.v) IN
         IF ~IsAddrmap(st.heap, ref)
         THEN MsgFatal(st, "TargetNotAddrmap")
         ELSE [st EXCEPT !.top_def = ref, !.top_def_name = top_def_name]

\* Lines 120-137.
SelectTarget(st, top_def_name) ==
    IF top_def_name # None THEN NamedTarget(st, top_def_name) ELSE LastAddrmap(st)

\* Lines 139-145.
CreateTopInstance(st, inst_name) ==
    IF st.raised # "" THEN st
    ELSE LET c == deepcopy(st.heap, st.top_def) IN
         [st EXCEPT !.heap = [c.heap EXCEPT
                                ![c.ref].is_instance = TRUE,
                                ![c.ref].inst_name =
                                    IF inst_name # None THEN inst_name
                                    ELSE st.top_def_name],
                    !.top_inst = c.ref]

\* A variant that ignores the parameters.
ParametersIgnored(st, parameters) == st

\* Lines 147-150.
CheckParameters(st, parameters) ==
    IF st.raised # "" THEN st
    ELSE IF Cardinality(DOMAIN parameters) # 0
         THEN [st EXCEPT !.raised = "NotImplementedError"]
         ELSE st

\* Line 152.
MakeTopNode(st) ==
    IF st.raised # "" THEN st ELSE [st EXCEPT !.node = st.top_inst]

\* Lines 154-158.
ResolveExpressions(st) == walk(st, <<"ElabExpressions">>, FALSE)

\* A variant with the two listeners the other way round.
PlaceBeforeValidating(st) ==
    walk(st, <<"StructuralPlacement", "PrePlacementValidate">>, FALSE)

\* Lines 160-165.
Place(st) == walk(st, <<"PrePlacementValidate", "StructuralPlacement">>, FALSE)

\* A variant that validates the instances that are not present too.
ValidateNotPresentToo(st) == walk(st, <<"Validate">>, FALSE)

\* Lines 167-168. RDLWalker() skips what is not present unless told otherwise.
Validate(st) == walk(st, <<"Validate">>, TRUE)

\* A variant without the test.
ElaborateUnchecked(st) == st

\* Lines 170-171.
CheckElaborate(st) ==
    IF st.raised # "" THEN st
    ELSE IF st.error_count # 0 THEN MsgFatal(st, "ElaborateAborted") ELSE st

\* Line 173, or the exception: nothing is returned when the call raised.
Return(st) == IF st.raised # "" THEN [st EXCEPT !.node = 0] ELSE st

\* A variant that tests the parameters before it selects the target.
elaborateTestingParametersFirst(st, top_def_name, inst_name, parameters) ==
    IF Parameters(parameters) # EmptyMap
    THEN Return(CheckParameters(st, Parameters(parameters)))
    ELSE Return(CheckElaborate(Validate(Place(ResolveExpressions(MakeTopNode(
             CreateTopInstance(SelectTarget(st, top_def_name), inst_name)))))))

elaborate(st, top_def_name, inst_name, parameters) ==
    Return(CheckElaborate(Validate(Place(ResolveExpressions(MakeTopNode(
        CheckParameters(
            CreateTopInstance(SelectTarget(st, top_def_name), inst_name),
            Parameters(parameters))))))))

Elaborate(top_def_name, inst_name, parameters) ==
    /\ ncalls < MaxCalls
    /\ \E st \in {elaborate(Enter, top_def_name, inst_name, parameters)} :
       /\ Commit(st)
       /\ result' = [op |-> "elaborate", raised |-> st.raised, text |-> st.text,
                     top_def_name |-> top_def_name, inst_name |-> inst_name,
                     parameters |-> parameters,
                     top_def |-> st.top_def, top_inst |-> st.top_inst,
                     top_inst_name |-> IF st.top_inst = 0 THEN None
                                       ELSE st.heap[st.top_inst].inst_name,
                     tree |-> IF st.top_inst = 0 THEN {}
                              ELSE Owned(st.heap, st.top_inst),
                     not_present |-> IF st.top_inst = 0 THEN {}
                                     ELSE {id \in Owned(st.heap, st.top_inst) :
                                              ~st.heap[id].present},
                     node |-> st.node,
                     errors_at_entry |-> error_count,
                     elaborated_at_entry |-> elaborated]
       /\ elaborated' = IF st.node = 0 THEN elaborated
                        ELSE elaborated \cup {st.top_def}
    /\ ncalls' = ncalls + 1

----------------------------------------------------------------------------

Init ==
    /\ error_count = 0
    /\ sink = << >>
    /\ comp_defs = << >>
    /\ heap = << >>
    /\ default_property_ns_stack = <<{}>>
    /\ log = << >>
    /\ result = [op |-> "init"]
    /\ ncalls = 0
    /\ elaborated = {}

OptNames(S) == {None} \cup {Some(n) : n \in S}

Next ==
    \/ \E unit \in Units : CompileFile(unit)
    \/ \E top_def_name \in OptNames(Names), inst_name \in OptNames(InstNames),
          parameters \in OptNames(ParamMaps) :
           Elaborate(top_def_name, inst_name, parameters)

Spec == Init /\ [][Next]_vars

----------------------------------------------------------------------------
(* What the latest call was.                                               *)

Elaborated == result.op = "elaborate"
Compiled == result.op = "compile_file"
Failed == Elaborated /\ result.raised = "RDLCompileError"
Returned == Elaborated /\ result.raised = "" /\ result.node # 0

\* The positions of the log at which a walk returned.
Boundaries == {i \in DOMAIN log : log[i].cb = "done"}

----------------------------------------------------------------------------
\* C1: in elaborate every pass boundary is a hard stop: once a walk has
\* returned with the error counter nonzero, no later walk runs and elaborate
\* aborts there with the fatal compile error.
C1_HardStop ==
    Elaborated =>
        \A i \in Boundaries :
            log[i].errors # 0 => i = Len(log) /\ Failed

----------------------------------------------------------------------------
\* C2: whenever the visitor starts on a unit, the default-property context is
\* a single empty frame: nothing an earlier unit assigned is left in it.
C2_DefaultIsolation ==
    (Compiled /\ result.visited) => result.stack_at_entry = <<{}>>

----------------------------------------------------------------------------
GivenParameters == Elaborated /\ Parameters(result.parameters) # EmptyMap

\* C3, as claimed: every elaborate call given a non-empty parameters map
\* fails with NotImplemented, whatever the target and the session's state.
C3_AlwaysNotImplemented ==
    GivenParameters => result.raised = "NotImplementedError"

\* C3, amended: an elaborate call given a non-empty parameters map fails with
\* NotImplemented when target selection succeeds and with the target-selection
\* fatal error when it does not; either way no Node is returned and no walk
\* runs. A call given None or an empty map never raises NotImplemented.
C3_NotImplemented ==
    Elaborated =>
        /\ GivenParameters =>
               /\ result.node = 0 /\ log = << >>
               /\ result.top_def # 0 => result.raised = "NotImplementedError"
               /\ result.top_def = 0 =>
                      /\ result.raised = "RDLCompileError"
                      /\ result.text \in {"TargetNotFound", "TargetNotAddrmap", "NoAddrmap"}
        /\ ~GivenParameters => result.raised # "NotImplementedError"

\* A call with parameters and a valid target has raised NotImplemented.
C3_Witness ==
    GivenParameters /\ result.top_def # 0 /\ result.raised = "NotImplementedError"

----------------------------------------------------------------------------
(* Steps, and the definition table as a step finds it.                     *)

ElaborateStep == ncalls' = ncalls + 1 /\ result'.op = "elaborate"
CompileStep == ncalls' = ncalls + 1 /\ result'.op = "compile_file"

Addrmaps == {i \in DOMAIN comp_defs : heap[comp_defs[i].ref].kind = "addrmap"}
Named(name) == {i \in DOMAIN comp_defs : comp_defs[i].name = name}
NoTargetTexts == {"TargetNotFound", "TargetNotAddrmap", "NoAddrmap"}

\* The three cases without an elaboration target, for an argument top_def_name.
NoTarget(name) ==
    \/ name # None /\ Named(name.v) = {}
    \/ name # None /\ Named(name.v) # {} /\ Named(name.v) \cap Addrmaps = {}
    \/ name = None /\ Addrmaps = {}

----------------------------------------------------------------------------
\* C4: elaborate fails with the NoElaborationTarget fatal error in exactly
\* three cases (the named definition is not bound, it is bound to something
\* that is no addrmap, or no name is given and nothing bound is an addrmap);
\* it then runs no walk and creates no instance. In every other case a
\* target is selected.
C4_NoElaborationTarget ==
    [][ElaborateStep =>
         LET none == NoTarget(result'.top_def_name) IN
         /\ none <=> (result'.raised = "RDLCompileError"
                        /\ result'.text \in NoTargetTexts)
         /\ none => /\ log' = << >>
                    /\ result'.top_inst = 0
                    /\ DOMAIN heap' \subseteq DOMAIN heap
         /\ ~none => result'.top_def # 0]_vars

\* A call naming a definition that is bound to a reg has failed.
C4_Witness ==
    Failed /\ result.text = "TargetNotAddrmap" /\ result.top_def_name # None
           /\ comp_defs # << >>

----------------------------------------------------------------------------
\* C5: without top_def_name elaborate selects the addrmap defined last in the
\* root namespace, passing over what was defined after it; with a valid
\* top_def_name it selects the definition of that name. The top instance is
\* named inst_name when that is given, and after the selected definition
\* when it is not.
C5_Selection ==
    [][(ElaborateStep /\ result'.top_def # 0) =>
         \E i \in Addrmaps :
             /\ comp_defs[i].ref = result'.top_def
             /\ IF result'.top_def_name = None
                THEN \A j \in Addrmaps : j <= i
                ELSE comp_defs[i].name = result'.top_def_name.v
             /\ result'.top_inst # 0
             /\ result'.top_inst_name =
                    IF result'.inst_name # None THEN result'.inst_name
                    ELSE Some(comp_defs[i].name)]_vars

\* With two addrmaps defined and no name given, the second was elaborated and
\* the instance bears its name.
C5_Witness ==
    /\ Returned /\ result.top_def_name = None /\ result.inst_name = None
    /\ Len(comp_defs) = 2 /\ Addrmaps = {1, 2}
    /\ result.top_def = comp_defs[2].ref
    /\ heap[result.node].inst_name = Some(comp_defs[2].name)

----------------------------------------------------------------------------
(* The log: where a listener's callbacks are, and the instances it has     *)
(* left before a position.                                                 *)
At(by, cb) == {i \in DOMAIN log : log[i].by = by /\ log[i].cb = cb}
Of(by) == At(by, "enter") \cup At(by, "exit")
DoneBefore(by, i) == {log[j].at : j \in {k \in At(by, "exit") : k < i}}
Follows(i, j) ==
    /\ i \in DOMAIN log /\ j \in DOMAIN log /\ j = i + 1
    /\ log[i].cb = log[j].cb /\ log[i].at = log[j].at

\* C6: the order of the passes is fixed. The expression listener has been to
\* every instance of the tree before pre-placement validation or placement
\* is at any; those two go through one walk together, validation at a node
\* right before placement at that node; and the final validation is at no
\* instance before that walk has been through the whole tree.
C6_PassOrder ==
    Elaborated =>
        /\ \A i \in Of("PrePlacementValidate") \cup Of("StructuralPlacement") :
               DoneBefore("ElabExpressions", i) = result.tree
        /\ \A i \in Of("PrePlacementValidate") :
               i + 1 \in Of("StructuralPlacement") /\ Follows(i, i + 1)
        /\ \A i \in Of("StructuralPlacement") :
               i - 1 \in Of("PrePlacementValidate") /\ Follows(i - 1, i)
        /\ \A i \in Of("Validate") :
               /\ DoneBefore("PrePlacementValidate", i) = result.tree
               /\ DoneBefore("StructuralPlacement", i) = result.tree

\* A tree of more than one instance has been through all three walks.
C6_Witness ==
    /\ Returned /\ Cardinality(result.tree) > 1
    /\ At("Validate", "exit") # {} /\ At("StructuralPlacement", "enter") # {}

----------------------------------------------------------------------------
\* C7: elaboration never changes the definition library. An elaborate call,
\* whether it succeeds or fails, leaves the table and every object of every
\* definition as they were (not an instance, without an instance name); the
\* top instance is made of new objects only, which it shares with no
\* definition and no earlier elaboration, and no object that was there
\* before is changed.
C7_DefinitionsUntouched ==
    [][ElaborateStep =>
         /\ comp_defs' = comp_defs
         /\ \A id \in DefObjects(heap, comp_defs) :
                /\ id \in DOMAIN heap' /\ heap'[id] = heap[id]
                /\ ~heap'[id].is_instance /\ heap'[id].inst_name = None
         /\ result'.tree \cap DOMAIN heap = {}
         /\ \A id \in DOMAIN heap \cap DOMAIN heap' : heap'[id] = heap[id]]_vars

\* A definition has been elaborated a second time, and the instance the
\* passes worked on differs from the definition.
C7_Witness ==
    /\ Returned /\ result.top_def \in result.elaborated_at_entry
    /\ heap[result.node].is_instance /\ heap[result.node].placed
    /\ \A id \in result.tree : heap[id].resolved
    /\ ~heap[result.top_def].is_instance /\ ~heap[result.top_def].placed

----------------------------------------------------------------------------
\* The visitor met a semantic error: one it recorded, or one it raised.
VisitorTrouble(r) ==
    /\ r.visited
    /\ \/ r.visitor_errors > 0
       \/ r.raised = "RDLCompileError" /\ r.text = "Semantic"

\* C8, as claimed: compile_file fails fatally if and only if the front end
\* reported a syntax error for the unit or the visitor met a semantic error
\* in the unit.
C8_FailsIffUnitIsBad ==
    Compiled => (result.raised # "" <=> (result.syntax_error \/ VisitorTrouble(result)))

\* C8, amended: compile_file fails fatally if and only if the session's error
\* counter was already nonzero when the call began, or the front end reported
\* a syntax error for the unit, or the visitor met a semantic error in the
\* unit. When the front end reported a syntax error the visitor is not run,
\* and nothing of the unit is merged into the namespace.
C8_FailsIffErrors ==
    [][CompileStep =>
         /\ result'.raised # "" <=>
                \/ error_count # 0
                \/ result'.syntax_error
                \/ VisitorTrouble(result')
         /\ result'.syntax_error =>
                /\ ~result'.visited
                /\ comp_defs' = comp_defs
                /\ DOMAIN heap' \subseteq DOMAIN heap]_vars

\* A unit with nothing wrong in it has failed, on an error of an earlier call.
C8_Witness ==
    /\ Compiled /\ result.raised = "RDLCompileError" /\ result.text = "ParseAborted"
    /\ ~result.syntax_error /\ result.errors_at_entry > 0

----------------------------------------------------------------------------
\* C9: elaborate returns a Node only with the error counter at zero after the
\* final validation. When a listener of any pass has recorded an error,
\* elaborate ends in one fatal failure and returns no Node, and by then every
\* one of those errors has been handed to the sink, ahead of the fatal one.
C9_AggregateFailure ==
    Elaborated =>
        /\ result.node # 0 =>
               /\ error_count = 0 /\ result.raised = ""
               /\ log # << >> /\ log[Len(log)].cb = "done"
               /\ log[Len(log)].by = "Validate"
        /\ error_count > result.errors_at_entry =>
               /\ Failed /\ result.node = 0
               /\ Len(sink) = error_count - result.errors_at_entry + 1
               /\ \A i \in 1..(Len(sink) - 1) : sink[i][1] = "error"
               /\ sink[Len(sink)][1] = "fatal"

\* Two passes have each recorded an error and elaborate has failed at its end.
C9_Witness ==
    /\ Failed /\ result.text = "ElaborateAborted"
    /\ error_count >= result.errors_at_entry + 2
    /\ At("Validate", "exit") # {}

----------------------------------------------------------------------------
\* C10: a session is elaborated once: an elaborate call returns a Node for a
\* top-level definition only if no earlier call on the session has returned
\* one for it.
C10_ElaboratedOnce ==
    Returned => result.top_def \notin result.elaborated_at_entry

----------------------------------------------------------------------------
(* The instances of the latest elaboration's tree that are not present,    *)
(* and whether the walk a listener belongs to has returned.                *)

NotPresent == result.not_present
WalkOf(by) == IF by = "StructuralPlacement" THEN "PrePlacementValidate" ELSE by
WalkReturned(by) == \E i \in Boundaries : log[i].by = WalkOf(by)
Called(by, cb, id) == \E i \in At(by, cb) : log[i].at = id

\* C12: the expression walk and the pre-placement/placement walk visit the
\* instances that are not present, and the final validation skips them: no
\* callback of the final validation is ever made at an instance that is not
\* present, and every such instance gets the callbacks of the expression,
\* pre-placement and placement listeners in each of their walks that returns.
C12_NotPresent ==
    Elaborated =>
        /\ \A i \in Of("Validate") : log[i].at \notin NotPresent
        /\ \A by \in {"ElabExpressions", "PrePlacementValidate", "StructuralPlacement"} :
               WalkReturned(by) =>
                   \A id \in NotPresent : Called(by, "enter", id) /\ Called(by, "exit", id)

\* A tree with an instance that is not present has been through the three
\* walks: the first two were at that instance, and the validation, which
\* would have found an error there, was not.
C12_Witness ==
    /\ Returned /\ NotPresent # {}
    /\ \A id \in NotPresent :
           /\ heap[id].fault = "val_error" /\ heap[id].resolved /\ heap[id].placed
           /\ Called("StructuralPlacement", "exit", id)
           /\ ~Called("Validate", "enter", id)

----------------------------------------------------------------------------
FinalCheckReached == Elaborated /\ \E i \in Boundaries : log[i].by = "Validate"

\* C13: the error counter is never reset, so failure is sticky: no call
\* lowers the counter; once an error has been counted, every later
\* compile_file fails at the check after the parse, before the visitor runs
\* and without merging a definition, however clean its unit; and every later
\* elaborate that reaches the final check fails there, however valid the
\* design.
C13_Sticky ==
    [][/\ error_count' >= error_count
       /\ (CompileStep /\ error_count # 0) =>
              /\ result'.raised = "RDLCompileError" /\ result'.text = "ParseAborted"
              /\ ~result'.visited
              /\ comp_defs' = comp_defs
              /\ \A id \in DOMAIN heap' : id \in DOMAIN heap /\ heap'[id] = heap[id]
       /\ (ElaborateStep /\ error_count # 0 /\ FinalCheckReached') =>
              /\ result'.raised = "RDLCompileError" /\ result'.text = "ElaborateAborted"
              /\ result'.node = 0]_vars

\* A valid design, walked without a new error in a session that had counted
\* one before, fails at the final check.
C13_Witness ==
    /\ Elaborated /\ result.errors_at_entry # 0
    /\ error_count = result.errors_at_entry
    /\ FinalCheckReached
    /\ result.text = "ElaborateAborted"

----------------------------------------------------------------------------
\* C14: after every compile_file call, whether it returned or ended in a
\* fatal error, the stack of default property assignments is a single empty
\* frame.
C14_AlwaysReset == Compiled => default_property_ns_stack = <<{}>>

----------------------------------------------------------------------------
TargetSelectionFailed(r) ==
    /\ r.raised = "RDLCompileError" /\ r.text \in NoTargetTexts
    /\ r.top_inst = 0

\* C15: the parameters are tested after the target is selected and before
\* any walk. With parameters given, a call whose target is missing or not an
\* addrmap ends in the fatal error of target selection, which prints its
\* diagnostic, and not in NotImplementedError; a call whose target is valid
\* ends in NotImplementedError with no listener called at any instance, no
\* diagnostic printed, and the error counter and the root namespace as they
\* were.
C15_ParametersAfterTarget ==
    [][(ElaborateStep /\ result'.parameters \in {Some(p) : p \in ParamMaps \ {EmptyMap}}) =>
          IF NoTarget(result'.top_def_name)
          THEN /\ TargetSelectionFailed(result')
               /\ sink' = <<<<"fatal", result'.text>>>>
               /\ log' = << >>
          ELSE /\ result'.raised = "NotImplementedError"
               /\ result'.top_def \in DefObjects(heap, comp_defs)
               /\ log' = << >> /\ sink' = << >>
               /\ error_count' = error_count
               /\ comp_defs' = comp_defs
               /\ \A id \in DefObjects(heap, comp_defs) :
                      id \in DOMAIN heap' /\ heap'[id] = heap[id]]_vars

\* Parameters were given with the name of a definition that is not an
\* addrmap: the call ended in the fatal error of target selection.
C15_Witness ==
    /\ GivenParameters /\ TargetSelectionFailed(result)
    /\ result.text = "TargetNotAddrmap"
    /\ sink # << >>

====
